---- MODULE Spec2Model ----
(***************************************************************************)
(* Model of api/views.py: the two Django views home and health.            *)
(*                                                                         *)
(* The views are served by a pool of worker slots (the hosting framework   *)
(* decides how many run at once).  A home invocation evaluates             *)
(* datetime.now() (one read of the local wall clock), renders it with      *)
(* isoformat() and wraps the dict in a JsonResponse; a health invocation   *)
(* wraps a constant dict.  The wall clock belongs to the environment: real *)
(* time passes, the clock may be stepped (NTP correction, DST change) and  *)
(* a read of it may fail.                                                  *)
(***************************************************************************)
EXTENDS Integers, Sequences, FiniteSets, TLC

(* ---------------------------- bounds ---------------------------------- *)

\* number of invocations the framework serves at the same time
NumWorkers == 2

\* real time runs over the instants 0..MaxTick after start-up, in half seconds
MaxTick == 2

(* ------------------------- input domains ------------------------------ *)

Workers == 1..NumWorkers

\* local wall clock reading at start-up, in seconds since 1970-01-01T00:00:00
\* local time: day 19782 (2024-02-29) at 23:59:59, one second before the day
\* and the month change
EpochBase == 19782 * 86400 + 86399

\* offsets (seconds) the wall clock can have against real time: exact, or
\* set back by one hour (the end of daylight saving time, a correction)
Adjustments == {-3600, 0}

\* requests handed to a view; they differ in method, path, query and body
Requests ==
    { [method |-> "GET",  path |-> "/",       GET |-> "",         body |-> ""],
      [method |-> "POST", path |-> "/health", GET |-> "status=0", body |-> "{\"status\": \"down\"}"] }

Handlers == {"home", "health"}

None == [none |-> TRUE]

(* ------------------------------ state --------------------------------- *)

VARIABLES
    mono,       \* real time elapsed since start-up
    adj,        \* current offset of the wall clock against real time
    clockOk,    \* whether a read of the wall clock succeeds
    pc,         \* pc[w]: "idle", "arrived", "read", "done" or "fault"
    handler,    \* handler[w]: the view the invocation runs
    request,    \* request[w]: the request object passed to the view
    reading,    \* reading[w]: what datetime.now() gave the invocation
    response,   \* response[w]: the response of the invocation
    obs,        \* obs[w]: what an observer recorded about the invocation
    client      \* the test client of the two-requests scenario

vars ==
    <<mono, adj, clockOk, pc, handler, request, reading, response, obs, client>>

(* --------------------------- the clock -------------------------------- *)

\* the instants of real time, counted in half seconds since start-up
Times == 0..MaxTick

\* the instant one second after t
OneSecondAfter(t) == t + 2

\* the wall clock reading (seconds, microseconds) at real time t under
\* adjustment a
WallAt(t, a) ==
    [sec |-> EpochBase + (t \div 2) + a, usec |-> (t % 2) * 500000]

\* the wall clock reading now
Wall == WallAt(mono, adj)

\* datetime.now(): the naive local datetime of a wall clock reading
\* (proleptic Gregorian calendar, as the datetime module computes it)
datetime_now(wall) ==
    LET days == wall.sec \div 86400
        rem  == wall.sec % 86400
        z    == days + 719468
        era  == z \div 146097
        doe  == z - era * 146097
        yoe  == (doe - doe \div 1460 + doe \div 36524 - doe \div 146096) \div 365
        y    == yoe + era * 400
        doy  == doe - (365 * yoe + yoe \div 4 - yoe \div 100)
        mp   == (5 * doy + 2) \div 153
        d    == doy - (153 * mp + 2) \div 5 + 1
        m    == IF mp < 10 THEN mp + 3 ELSE mp - 9
    IN  [year        |-> IF m <= 2 THEN y + 1 ELSE y,
         month       |-> m,
         day         |-> d,
         hour        |-> rem \div 3600,
         minute      |-> (rem % 3600) \div 60,
         second      |-> rem % 60,
         microsecond |-> wall.usec]

(* ------------------------- datetime.isoformat ------------------------- *)

Digits == <<"0", "1", "2", "3", "4", "5", "6", "7", "8", "9">>

\* n written in decimal with exactly width digits, zero padded ("%0<width>d")
RECURSIVE Pad(_, _)
Pad(n, width) ==
    IF width = 0 THEN <<>>
    ELSE Pad(n \div 10, width - 1) \o <<Digits[(n % 10) + 1]>>

\* a rendering that keeps the date only, as date().isoformat() would
isoformat_date(d) ==
    Pad(d.year, 4) \o <<"-">> \o Pad(d.month, 2) \o <<"-">> \o Pad(d.day, 2)

\* datetime.isoformat() of a naive datetime, as a sequence of characters:
\* YYYY-MM-DDTHH:MM:SS, followed by .ffffff only when microsecond is not 0
isoformat(d) ==
    Pad(d.year, 4) \o <<"-">> \o Pad(d.month, 2) \o <<"-">> \o Pad(d.day, 2)
    \o <<"T">>
    \o Pad(d.hour, 2) \o <<":">> \o Pad(d.minute, 2) \o <<":">> \o Pad(d.second, 2)
    \o (IF d.microsecond = 0 THEN <<>> ELSE <<".">> \o Pad(d.microsecond, 6))

(* ------------------------------ views --------------------------------- *)

\* what datetime.now() gives when the clock cannot be read: it raises
ClockError == [raised |-> "OSError"]

\* django.http.JsonResponse(data) for a dict: status 200, JSON content type,
\* the dict as the JSON object of the body
JsonResponse(data) ==
    [status_code |-> 200, content_type |-> "application/json", content |-> data]

\* a home that answers GET only, as under @require_GET
home_get_only(req, now) ==
    IF now = ClockError THEN ClockError
    ELSE IF req.method # "GET"
    THEN [status_code |-> 405, content_type |-> "text/html", content |-> None]
    ELSE JsonResponse([message   |-> "Hello from DevOps Stage 1 - Django!",
                       status    |-> "success",
                       timestamp |-> isoformat(now)])

\* a home whose timestamp was computed once, when the module was imported
home_at_import(req, now) ==
    IF now = ClockError THEN ClockError
    ELSE JsonResponse([message   |-> "Hello from DevOps Stage 1 - Django!",
                       status    |-> "success",
                       timestamp |-> isoformat(datetime_now(WallAt(0, 0)))])

\* a home that greets the path it was asked for
home_echo(req, now) ==
    IF now = ClockError THEN ClockError
    ELSE JsonResponse([message   |-> "Hello from " \o req.path,
                       status    |-> "success",
                       timestamp |-> isoformat(now)])

\* a home that catches the clock error and answers without a timestamp
home_catch(req, now) ==
    IF now = ClockError
    THEN JsonResponse([message |-> "Hello from DevOps Stage 1 - Django!",
                       status  |-> "success"])
    ELSE JsonResponse([message   |-> "Hello from DevOps Stage 1 - Django!",
                       status    |-> "success",
                       timestamp |-> isoformat(now)])

\* a home that keeps the clock reading in a module-level global which the
\* first invocation to read the clock fills and later ones reuse
home_shared(req, now) ==
    LET holders == {v \in Workers : reading[v] \notin {None, ClockError}}
        first   == CHOOSE v \in holders : \A u \in holders : v <= u
    IN  IF now = ClockError THEN ClockError
        ELSE JsonResponse([message   |-> "Hello from DevOps Stage 1 - Django!",
                           status    |-> "success",
                           timestamp |-> isoformat(IF holders = {} THEN now
                                                   ELSE reading[first])])

\* def home(request): req is the request, now what datetime.now() gave.  The body has no
\* try/except: an exception raised by datetime.now() leaves the view.
home(req, now) ==
    IF now = ClockError THEN ClockError
    ELSE JsonResponse([message   |-> "Hello from DevOps Stage 1 - Django!",
                       status    |-> "success",
                       timestamp |-> isoformat(now)])

\* a health that reports on the clock it depends on
health_checks_clock(req) ==
    JsonResponse([status |-> IF clockOk THEN "healthy" ELSE "unhealthy"])

\* a health that also reports how many invocations are being served
health_counter(req) ==
    JsonResponse([status |-> "healthy",
                  active |-> Cardinality({v \in Workers : pc[v] # "idle"})])

\* def health(request): req is the request
health(req) == JsonResponse([status |-> "healthy"])

\* every view stamps its response with the time
ReadsClock_all(h) == TRUE

\* which view bodies call datetime.now()
ReadsClock(h) == h = "home"

\* what the framework sends when a view raises: the generic server error
ServerError ==
    [status_code |-> 500, content_type |-> "text/html", content |-> None]

(* --------------------------- initial state ---------------------------- *)

\* the view the framework's URL dispatch selected, applied to the request
View(h, req, now) == IF h = "home" THEN home(req, now) ELSE health(req)

\* nothing observed yet: no clock read, and for a view that reads no clock
\* whether the clock was "up" or "down" when it answered
NoObs == [reads |-> 0, readAt |-> None, readAdj |-> None, clockAtEnd |-> "n/a"]

ClientStart == [pc |-> "start", first |-> None, second |-> None, setBack |-> FALSE]

Init ==
    /\ mono = 0
    /\ adj = 0
    /\ clockOk = TRUE
    /\ pc = [w \in Workers |-> "idle"]
    /\ handler = [w \in Workers |-> None]
    /\ request = [w \in Workers |-> None]
    /\ reading = [w \in Workers |-> None]
    /\ response = [w \in Workers |-> None]
    /\ obs = [w \in Workers |-> NoObs]
    /\ client = ClientStart

(* --------------------------- environment ------------------------------ *)

\* real time passes
Tick ==
    /\ \E t \in Times : mono < t /\ mono' = t
    /\ UNCHANGED <<adj, clockOk, pc, handler, request, reading, response, obs>>

\* the wall clock is stepped: NTP correction, DST change, operator
ClockStep ==
    /\ \E a \in Adjustments : a # adj /\ adj' = a
    /\ UNCHANGED <<mono, clockOk, pc, handler, request, reading, response, obs>>

\* the clock becomes unavailable
ClockFail ==
    /\ clockOk
    /\ clockOk' = FALSE
    /\ UNCHANGED <<mono, adj, pc, handler, request, reading, response, obs>>

\* the clock becomes available again
ClockRecover ==
    /\ ~clockOk
    /\ clockOk' = TRUE
    /\ UNCHANGED <<mono, adj, pc, handler, request, reading, response, obs>>

(* --------------------------- invocations ------------------------------ *)

\* the framework calls view h with request r on the first free worker w
Arrive(w, h, r) ==
    /\ pc[w] = "idle"
    /\ \A v \in Workers : v < w => pc[v] # "idle"
    /\ pc' = [pc EXCEPT ![w] = "arrived"]
    /\ handler' = [handler EXCEPT ![w] = h]
    /\ request' = [request EXCEPT ![w] = r]
    /\ UNCHANGED <<mono, adj, clockOk, reading, response, obs>>

\* the view evaluates datetime.now(): one read of the wall clock.  When the
\* read raises and the view lets the exception out, the invocation ends here
\* and the framework answers with the server error.
ReadClock(w) ==
    /\ pc[w] = "arrived"
    /\ ReadsClock(handler[w])
    /\ LET now == IF clockOk THEN datetime_now(Wall) ELSE ClockError
           raised == now = ClockError
                     /\ View(handler[w], request[w], now) = ClockError
       IN  /\ reading' = [reading EXCEPT ![w] = now]
           /\ pc' = [pc EXCEPT ![w] = IF raised THEN "fault" ELSE "read"]
           /\ response' = [response EXCEPT ![w] = IF raised THEN ServerError ELSE @]
    /\ obs' = [obs EXCEPT ![w].reads = @ + 1, ![w].readAt = mono,
                          ![w].readAdj = IF clockOk THEN adj ELSE @]
    /\ UNCHANGED <<mono, adj, clockOk, handler, request>>

\* the view builds its dict and returns the JsonResponse
Respond(w) ==
    /\ \/ pc[w] = "read"
       \/ pc[w] = "arrived" /\ ~ReadsClock(handler[w])
    /\ response' = [response EXCEPT ![w] =
                        View(handler[w], request[w], reading[w])]
    /\ pc' = [pc EXCEPT ![w] = "done"]
    /\ obs' = [obs EXCEPT ![w].clockAtEnd =
                              IF ReadsClock(handler[w]) THEN @
                              ELSE IF clockOk THEN "up" ELSE "down"]
    /\ UNCHANGED <<mono, adj, clockOk, handler, request, reading>>

\* the response has been sent and the worker is free again
Release(w) ==
    /\ pc[w] \in {"done", "fault"}
    /\ pc' = [pc EXCEPT ![w] = "idle"]
    /\ handler' = [handler EXCEPT ![w] = None]
    /\ request' = [request EXCEPT ![w] = None]
    /\ reading' = [reading EXCEPT ![w] = None]
    /\ response' = [response EXCEPT ![w] = None]
    /\ obs' = [obs EXCEPT ![w] = NoObs]
    /\ UNCHANGED <<mono, adj, clockOk>>

Next ==
    \/ Tick /\ UNCHANGED client
    \/ ClockStep /\ UNCHANGED client
    \/ ClockFail /\ UNCHANGED client
    \/ ClockRecover /\ UNCHANGED client
    \/ \E w \in Workers, h \in Handlers, r \in Requests :
           Arrive(w, h, r) /\ UNCHANGED client
    \/ \E w \in Workers : ReadClock(w) /\ UNCHANGED client
    \/ \E w \in Workers : Respond(w) /\ UNCHANGED client
    \/ \E w \in Workers : Release(w) /\ UNCHANGED client

Spec == Init /\ [][Next]_vars

(* ------------------- the two-requests scenario ------------------------ *)
(* A test client issues the greeting request, waits for the response,     *)
(* sleeps one second and issues the request again.                        *)

\* the client issues the greeting request (the first, or after its sleep
\* the second)
ClientIssue(r) ==
    /\ client.pc \in {"start", "slept"}
    /\ Arrive(1, "home", r)
    /\ client' = [client EXCEPT !.pc = IF client.pc = "start" THEN "wait1" ELSE "wait2"]

\* the client receives the response
ClientReceive ==
    /\ client.pc \in {"wait1", "wait2"}
    /\ pc[1] = "done"
    /\ Release(1)
    /\ client' = IF client.pc = "wait1"
                 THEN [client EXCEPT !.pc = "got1", !.first = response[1]]
                 ELSE [client EXCEPT !.pc = "got2", !.second = response[1]]

\* the client sleeps one second
ClientSleep ==
    /\ client.pc = "got1"
    /\ OneSecondAfter(mono) \in Times
    /\ mono' = OneSecondAfter(mono)
    /\ client' = [client EXCEPT !.pc = "slept"]
    /\ UNCHANGED <<adj, clockOk, pc, handler, request, reading, response, obs>>

\* the wall clock is stepped while the scenario runs; the client record
\* notes a step backwards between the first request and the second response
ScenarioClockStep ==
    /\ ClockStep
    /\ client' = [client EXCEPT !.setBack =
                      @ \/ (adj' < adj /\ client.pc \notin {"start", "got2"})]

NextScenario ==
    \/ Tick /\ UNCHANGED client
    \/ ScenarioClockStep
    \/ \E r \in Requests : ClientIssue(r)
    \/ ReadClock(1) /\ UNCHANGED client
    \/ Respond(1) /\ UNCHANGED client
    \/ ClientReceive
    \/ ClientSleep

SpecScenario == Init /\ [][NextScenario]_vars

(* ------------------------- reading a timestamp ------------------------ *)
(* What a client does with the timestamp field: check that the text is an  *)
(* ISO-8601 date and time and read its fields back.                        *)

IsDigit(c) == \E i \in 1..10 : Digits[i] = c

DigitVal(c) == (CHOOSE i \in 1..10 : Digits[i] = c) - 1

\* the number written by the characters s[i..j]
RECURSIVE Num(_, _, _)
Num(s, i, j) == IF j < i THEN 0 ELSE Num(s, i, j - 1) * 10 + DigitVal(s[j])

DaysInMonth(y, m) ==
    IF m = 2
    THEN (IF (y % 4 = 0 /\ y % 100 # 0) \/ y % 400 = 0 THEN 29 ELSE 28)
    ELSE IF m \in {4, 6, 9, 11} THEN 30 ELSE 31

\* s is YYYY-MM-DDTHH:MM:SS or YYYY-MM-DDTHH:MM:SS.ffffff with fields in range
IsIso8601(s) ==
    /\ Len(s) \in {19, 26}
    /\ s[5] = "-" /\ s[8] = "-" /\ s[11] = "T" /\ s[14] = ":" /\ s[17] = ":"
    /\ Len(s) = 26 => s[20] = "."
    /\ \A i \in (1..Len(s)) \ {5, 8, 11, 14, 17, 20} : IsDigit(s[i])
    /\ Num(s, 6, 7) \in 1..12
    /\ Num(s, 9, 10) \in 1..DaysInMonth(Num(s, 1, 4), Num(s, 6, 7))
    /\ Num(s, 12, 13) \in 0..23
    /\ Num(s, 15, 16) \in 0..59
    /\ Num(s, 18, 19) \in 0..59

\* datetime.fromisoformat(s) of such a text
fromisoformat(s) ==
    [year        |-> Num(s, 1, 4),
     month       |-> Num(s, 6, 7),
     day         |-> Num(s, 9, 10),
     hour        |-> Num(s, 12, 13),
     minute      |-> Num(s, 15, 16),
     second      |-> Num(s, 18, 19),
     microsecond |-> IF Len(s) = 26 THEN Num(s, 21, 26) ELSE 0]

\* the fields of a datetime from the most to the least significant
Fields(d) == <<d.year, d.month, d.day, d.hour, d.minute, d.second, d.microsecond>>

\* datetime a is strictly later than datetime b
Later(a, b) ==
    \E i \in 1..7 :
        /\ Fields(a)[i] > Fields(b)[i]
        /\ \A j \in 1..(i - 1) : Fields(a)[j] = Fields(b)[j]

\* the wall clock reading worker w took, as the observer recorded it
ReadWall(w) == WallAt(obs[w].readAt, obs[w].readAdj)

\* a JSON object without its timestamp field
WithoutTimestamp(c) == [k \in (DOMAIN c) \ {"timestamp"} |-> c[k]]

\* worker w is running the view h
Runs(w, h) == pc[w] # "idle" /\ handler[w] = h

(* ------------------------------ claims -------------------------------- *)

\* C1: every greeting invocation that returns, whatever its request and its
\* clock reading, returns status 200 with a JSON body of exactly the fields
\* message, status and timestamp, message being the literal greeting and
\* status being "success".
C1_GreetingResponse ==
    \A w \in Workers :
        Runs(w, "home") /\ pc[w] = "done" =>
            /\ response[w].status_code = 200
            /\ response[w].content_type = "application/json"
            /\ DOMAIN response[w].content = {"message", "status", "timestamp"}
            /\ response[w].content.message = "Hello from DevOps Stage 1 - Django!"
            /\ response[w].content.status = "success"

\* a greeting answered for the POST request, from a clock reading with a
\* fraction of a second
C1_Witness ==
    \E w \in Workers :
        /\ Runs(w, "home") /\ pc[w] = "done"
        /\ request[w].method = "POST"
        /\ reading[w].microsecond # 0
        /\ response[w].status_code = 200

\* C2: whatever the request, and whatever happened before or happens beside
\* it, a health invocation never faults and returns status 200 with the body
\* {"status": "healthy"} and no other field.
C2_HealthResponse ==
    \A w \in Workers :
        Runs(w, "health") =>
            /\ pc[w] # "fault"
            /\ pc[w] = "done" =>
                   /\ response[w].status_code = 200
                   /\ response[w].content_type = "application/json"
                   /\ response[w].content = [status |-> "healthy"]

\* a health answered for the POST request while the clock is down and a
\* greeting has faulted on another worker
C2_Witness ==
    \E w, v \in Workers :
        /\ Runs(w, "health") /\ pc[w] = "done"
        /\ request[w].method = "POST"
        /\ response[w].content = [status |-> "healthy"]
        /\ pc[v] = "fault"
        /\ ~clockOk

\* the timestamp of a greeting response is the ISO-8601 text of the wall
\* clock reading its own invocation took, it parses back to that reading,
\* and the invocation has read the clock exactly once
C3_Reading ==
    \A w \in Workers :
        Runs(w, "home") =>
            /\ obs[w].reads = (IF pc[w] = "arrived" THEN 0 ELSE 1)
            /\ pc[w] = "done" =>
                   LET ts == response[w].content.timestamp
                   IN  /\ obs[w].readAt <= mono
                       /\ ts = isoformat(datetime_now(ReadWall(w)))
                       /\ IsIso8601(ts)
                       /\ fromisoformat(ts) = datetime_now(ReadWall(w))

\* the observer's record of a read is taken at the step in which the
\* invocation, having arrived and not yet answered, reads the clock, and it
\* is the clock's value at that step
C3_ReadStep ==
    \A w \in Workers :
        obs'[w].reads # obs[w].reads /\ obs'[w].reads # 0 =>
            /\ pc[w] = "arrived" /\ pc'[w] \in {"read", "fault"}
            /\ obs'[w].reads = obs[w].reads + 1
            /\ obs'[w].readAt = mono
            /\ mono' = mono /\ adj' = adj
            /\ pc'[w] = "read" => obs'[w].readAdj = adj

\* C3: the timestamp of every greeting response is the ISO-8601 rendering of
\* the one clock reading its invocation took between arrival and response.
C3_Timestamp == []C3_Reading /\ [][C3_ReadStep]_vars

\* a greeting answered with a reading that is neither the reading at
\* start-up nor the clock's value when the response is looked at
C3_Witness ==
    \E w \in Workers :
        /\ Runs(w, "home") /\ pc[w] = "done"
        /\ obs[w].readAt > 0
        /\ obs[w].readAt < mono
        /\ obs[w].readAdj # adj
        /\ response[w].content.timestamp = isoformat(datetime_now(ReadWall(w)))

\* what the test of the two-requests scenario asserts on its two responses
TwoTimestampsIncrease ==
    LET t1 == client.first.content.timestamp
        t2 == client.second.content.timestamp
    IN  /\ t1 # t2
        /\ IsIso8601(t1) /\ IsIso8601(t2)
        /\ Later(fromisoformat(t2), fromisoformat(t1))

\* C4, as stated: the two greeting requests issued one second apart yield
\* different, parseable and increasing timestamps, whatever the wall clock
\* does.
C4_Original == client.pc = "got2" => TwoTimestampsIncrease

\* C4, amended: they do when the wall clock is not set back between the
\* first request and the second response.
C4_Amended == client.pc = "got2" /\ ~client.setBack => TwoTimestampsIncrease

\* both responses received, no step back of the clock, the second timestamp
\* on the next day
C4_Witness ==
    /\ client.pc = "got2"
    /\ ~client.setBack
    /\ TwoTimestampsIncrease
    /\ fromisoformat(client.second.content.timestamp).day
           # fromisoformat(client.first.content.timestamp).day

\* worker v is left alone by a step
Untouched(v) ==
    /\ pc'[v] = pc[v] /\ handler'[v] = handler[v] /\ request'[v] = request[v]
    /\ reading'[v] = reading[v] /\ response'[v] = response[v] /\ obs'[v] = obs[v]

\* a step of the view running on worker w
ViewStep(w) == pc[w] \in {"arrived", "read"} /\ pc'[w] # pc[w]

\* a step of a view changes nothing outside its own invocation: not the
\* clock, not the request it was given, not another invocation
C5_Frame ==
    \A w \in Workers :
        ViewStep(w) =>
            /\ mono' = mono /\ adj' = adj /\ clockOk' = clockOk
            /\ request'[w] = request[w] /\ handler'[w] = handler[w]
            /\ \A v \in Workers \ {w} : Untouched(v)

\* two responses of the same endpoint are identical apart from the
\* greeting's timestamp
C5_SameResponses ==
    \A w, v \in Workers :
        pc[w] = "done" /\ pc[v] = "done" /\ handler[w] = handler[v] =>
            /\ response[w].status_code = response[v].status_code
            /\ response[w].content_type = response[v].content_type
            /\ WithoutTimestamp(response[w].content)
                   = WithoutTimestamp(response[v].content)

\* C5: idempotence: repeated calls to either endpoint mutate no state outside
\* the invocation and their responses differ in the timestamp at most.
C5_Idempotent == []C5_SameResponses /\ [][C5_Frame]_vars

\* two greetings answered for different requests with different timestamps
\* and otherwise equal responses
C5_Witness ==
    \E w, v \in Workers :
        /\ Runs(w, "home") /\ Runs(v, "home")
        /\ pc[w] = "done" /\ pc[v] = "done"
        /\ request[w] # request[v]
        /\ response[w].content.timestamp # response[v].content.timestamp
        /\ WithoutTimestamp(response[w].content)
               = WithoutTimestamp(response[v].content)

\* C6: the response does not depend on the request: it is the response any
\* other request would have got from the same view at the same clock
\* reading, and health's response does not depend on the clock either.
C6_IgnoresRequest ==
    /\ \A w \in Workers :
           pc[w] = "done" =>
               \A r \in Requests :
                   response[w] = View(handler[w], r, reading[w])
    /\ \A w, v \in Workers :
           (/\ pc[w] = "done" /\ pc[v] = "done" /\ handler[w] = handler[v]
            /\ (handler[w] = "home" => reading[w] = reading[v]))
           => response[w] = response[v]

\* two greetings answered for requests that differ in method, path, query
\* and body, from the same clock reading
C6_Witness ==
    \E w, v \in Workers :
        /\ Runs(w, "home") /\ Runs(v, "home")
        /\ pc[w] = "done" /\ pc[v] = "done"
        /\ request[w].method # request[v].method
        /\ request[w].path # request[v].path
        /\ request[w].body # request[v].body
        /\ reading[w] = reading[v]
        /\ response[w] = response[v]

\* a greeting whose clock read failed has faulted: the framework's
\* server error is its response, it has no 200 and no greeting body, it read
\* the clock once; and every invocation that answered, before or after,
\* answered as its view prescribes
C7_Fault ==
    \A w \in Workers :
        /\ reading[w] = ClockError <=> pc[w] = "fault"
        /\ pc[w] = "fault" =>
               /\ handler[w] = "home"
               /\ response[w].status_code = 500
               /\ response[w].content = None
               /\ obs[w].reads = 1
        /\ pc[w] = "done" =>
               /\ response[w].status_code = 200
               /\ handler[w] = "home" =>
                      response[w].content.timestamp
                          = isoformat(datetime_now(ReadWall(w)))
               /\ handler[w] = "health" =>
                      response[w].content = [status |-> "healthy"]

\* a faulted invocation is not retried: it stays as it is until the
\* worker is released, and the step that faults touches no other invocation
C7_NoRetry ==
    \A w \in Workers :
        /\ pc[w] = "fault" =>
               \/ pc'[w] = "idle"
               \/ pc'[w] = "fault" /\ Untouched(w)
        /\ pc[w] # "fault" /\ pc'[w] = "fault" =>
               \A v \in Workers \ {w} : Untouched(v)

\* C7: a clock read that fails in home is not handled: the invocation ends
\* in a fault answered by the framework's server error, without a 200 or a
\* greeting body and without a retry, and other invocations are unaffected.
C7_Unhandled == []C7_Fault /\ [][C7_NoRetry]_vars

\* a greeting has faulted and a greeting that read the clock later has
\* answered 200
C7_Witness ==
    \E w, v \in Workers :
        /\ pc[v] = "fault"
        /\ response[v].status_code = 500
        /\ Runs(w, "home") /\ pc[w] = "done"
        /\ obs[w].readAt > obs[v].readAt
        /\ response[w].status_code = 200

\* the response worker w gets when it is served alone at the clock value it
\* read
Alone(w) ==
    IF handler[w] = "home"
    THEN JsonResponse([message   |-> "Hello from DevOps Stage 1 - Django!",
                       status    |-> "success",
                       timestamp |-> isoformat(datetime_now(ReadWall(w)))])
    ELSE JsonResponse([status |-> "healthy"])

\* C8: under any interleaving every answered invocation has the response it
\* would have had alone at the clock value it read, and no invocation waits
\* for another: its next step can always be taken.
C8_Independent ==
    \A w \in Workers :
        /\ pc[w] = "done" => response[w] = Alone(w)
        /\ pc[w] = "arrived" /\ handler[w] = "home" => ENABLED ReadClock(w)
        /\ pc[w] = "arrived" /\ handler[w] = "health" => ENABLED Respond(w)
        /\ pc[w] = "read" => ENABLED Respond(w)

\* two greetings served at once with different readings, the later arrival's
\* reading being the earlier one
C8_Witness ==
    /\ Runs(1, "home") /\ Runs(2, "home")
    /\ pc[1] = "done" /\ pc[2] = "done"
    /\ obs[2].readAt < obs[1].readAt
    /\ response[1] # response[2]
    /\ response[1] = Alone(1) /\ response[2] = Alone(2)

\* a health invocation has read no clock, holds no clock reading, is
\* never in a fault, can answer in every state, and has answered 200
C9_NoClock ==
    \A w \in Workers :
        Runs(w, "health") =>
            /\ obs[w].reads = 0
            /\ reading[w] = None
            /\ pc[w] \in {"arrived", "done"}
            /\ pc[w] = "arrived" => ENABLED Respond(w)
            /\ pc[w] = "done" => response[w].status_code = 200

\* the step in which health answers changes nothing but its own
\* invocation's response
C9_Frame ==
    \A w \in Workers :
        Runs(w, "health") /\ ViewStep(w) =>
            /\ pc'[w] = "done"
            /\ mono' = mono /\ adj' = adj /\ clockOk' = clockOk
            /\ request'[w] = request[w] /\ handler'[w] = handler[w]
            /\ reading'[w] = reading[w]
            /\ \A v \in Workers \ {w} : Untouched(v)

\* C9: health has no side effect and no error condition: it never reads the
\* clock, leaves the state unchanged and returns 200 also while the clock is
\* unavailable and a greeting faults.
C9_HealthPure == []C9_NoClock /\ [][C9_Frame]_vars

\* health answered 200 while the clock was down, beside a greeting that
\* faulted
C9_Witness ==
    \E w, v \in Workers :
        /\ Runs(w, "health") /\ pc[w] = "done"
        /\ obs[w].clockAtEnd = "down"
        /\ response[w].status_code = 200
        /\ pc[v] = "fault"
====
